---- MODULE Spec2Model ----
(***************************************************************************)
(* Salla price optimizer: the crew run of optimize_single_store (scout,    *)
(* analyst and executor tasks, then loading and saving their reports), the *)
(* dashboard handlers that act on saved decisions, the pure helpers of     *)
(* utils.py, the market search tools, the Celery tasks of scheduler/ with  *)
(* the token manager, and optimize_single_store for two stores at once.    *)
(*                                                                         *)
(* Prices are whole SAR.  Percentages are whole percents unless a name     *)
(* ends in Bp (hundredths of a percent, the two decimals utils.py keeps).  *)
(* A JSON file or a dict that may be absent/empty is a sequence of length  *)
(* 0 or 1; a dict with optional keys is a function over the keys present.  *)
(***************************************************************************)
EXTENDS Integers, Sequences, FiniteSets, TLC

VARIABLES
    pc,          \* position inside optimize_single_store / the crew
    catalog,     \* the product as the Salla API returns it
    products,    \* salla_inventory_discovery()["products"]
    shared_dir,  \* files under ./ai-agent-output (the tasks' output_file)
    store_dir,   \* files under ./store-data/<store_id>
    salla_price, \* live price of the product in the Salla store
    put_log,     \* PUT requests sent by update_salla_product_price
    decisions,   \* rows of table pricing_decisions, oldest first
    db_products, \* rows of table products
    db_competitors, \* rows of table competitors
    activity,    \* rows of table activity_logs
    result,      \* return value of optimize_single_store
    notice,      \* message shown by the Execute Decision buttons
    u_in,        \* arguments handed to a utils.py helper
    u_out,       \* what the helper returned or raised
    tavily,      \* results the Tavily client returns, over the queries in order
    found,       \* return value of SaudiMarketSearcher.search_competitors
    answers,     \* every answer of the analyst task so far, oldest first
    stores,      \* rows of table stores, by store_id
    runs,        \* rows of table optimization_runs; the id is the position
    invocations, \* optimize_store task messages and how far each has got
    clock,       \* hours since midnight, as Celery beat sees them
    fired,       \* beat entries already sent in the current hour
    refreshes,   \* the latest call of refresh_store_token, <<>> before the first
    build,       \* what the deployment fixes: the keyword ActivityLog takes
    environ,     \* os.environ of the worker process running a store's crew
    files,       \* report files by directory, each tagged with its producer
    opt_pc,      \* position of optimize_single_store, by store
    saved,       \* what _save_to_database was handed, by store
    shown        \* product_decisions of a dashboard script run, by session

vars == <<pc, catalog, products, shared_dir, store_dir, salla_price, put_log,
          decisions, db_products, db_competitors, activity, result, notice,
          u_in, u_out, tavily, found, answers,
          stores, runs, invocations, clock, fired, refreshes, build,
          environ, files, opt_pc, saved, shown>>

dbVars == <<decisions, db_products, db_competitors, activity>>
utilVars == <<u_in, u_out>>
searchVars == <<tavily, found>>
schedVars == <<stores, runs, invocations, clock, fired, refreshes, build>>
tenantVars == <<environ, files, opt_pc, saved>>
platformVars == <<schedVars, tenantVars, shown>>

-----------------------------------------------------------------------------
(* Bounds *)

MaxCompetitors == 2

ApiPriceAmounts == {0, 100}
ApiCostPrices == {<<>>, <<80>>, <<95>>}
ApiCategories == {<<>>, <<"dresses">>}
CompetitorPrices == {90, 120}
SuggestedPrices == {88, 100, 126}
StrategyNames == {"Undercut", "Premium", "Hold", "Price Match"}
RiskNames == {"Low", "Medium", "High"}
ActionNames == {"updated", "skipped", "Updated"}
HttpStatuses == {200, 401}

-----------------------------------------------------------------------------
(* Python helpers *)

\* dict.get(key, default)
Get(d, key, default) == IF key \in DOMAIN d THEN d[key] ELSE default

Abs(x) == IF x < 0 THEN -x ELSE x

\* round(n / d) to the nearest integer, ties to even, for d > 0
RoundDiv(n, d) ==
    LET q == n \div d
        r == n % d
    IN  IF 2 * r < d THEN q
        ELSE IF 2 * r > d THEN q + 1
        ELSE IF q % 2 = 0 THEN q ELSE q + 1

NoFiles == [market |-> <<>>, pricing |-> <<>>, execution |-> <<>>]

-----------------------------------------------------------------------------
(* utils.py *)

\* margin_percentage of calculate_profit_margin, in hundredths of a percent
\* (round(..., 2)); defined for cost_price > 0 only, the code raises otherwise
MarginBp(selling_price, cost_price) ==
    RoundDiv((selling_price - cost_price) * 10000, cost_price)

calculate_profit_margin(selling_price, cost_price) ==
    IF cost_price <= 0
    THEN [raised |-> "ValueError"]
    ELSE [raised |-> "",
          margin_percentage |-> MarginBp(selling_price, cost_price),
          margin_amount |-> selling_price - cost_price]

\* get_risk_level with the first margin test written >= instead of >
get_risk_level_inclusive(margin_percentage, price_change_percentage) ==
    IF margin_percentage >= 15 /\ Abs(price_change_percentage) < 10 THEN "Low"
    ELSE IF margin_percentage >= 5 /\ Abs(price_change_percentage) <= 20
         THEN "Medium"
         ELSE "High"

\* arguments in whole percents
get_risk_level(margin_percentage, price_change_percentage) ==
    IF margin_percentage > 15 /\ Abs(price_change_percentage) < 10 THEN "Low"
    ELSE IF margin_percentage >= 5 /\ Abs(price_change_percentage) <= 20
         THEN "Medium"
         ELSE "High"

-----------------------------------------------------------------------------
(* agents/scout_agent.py *)

\* float(x) if x else 0.0, for a key that may be missing
FloatOrZero(v) == IF v = <<>> THEN 0 ELSE v[1]

\* the product_info dict built for one product of the API response
ProductInfo(product) ==
    [product_id |-> "p1",
     price |-> product.price,
     cost |-> FloatOrZero(product.cost_price),
     category |-> IF product.category = <<>> THEN "Fashion"
                  ELSE product.category[1]]

\* "Only add products with valid prices"
DiscoveredProducts(product) ==
    IF ProductInfo(product).price > 0 THEN <<ProductInfo(product)>> ELSE <<>>

\* lists of CompetitorPrice the scout task may compile
RECURSIVE SeqsUpTo(_, _)
SeqsUpTo(S, n) ==
    IF n = 0 THEN {<<>>}
    ELSE SeqsUpTo(S, n - 1) \cup
         {Append(q, x) : q \in {t \in SeqsUpTo(S, n - 1) : Len(t) = n - 1}, x \in S}

CompetitorLists ==
    SeqsUpTo({[store_name |-> "Namshi", price |-> p, is_valid |-> TRUE] :
                 p \in CompetitorPrices}, MaxCompetitors)

\* the ExtractedProductPrices JSON of the scout task
MarketReport(info, competitors) ==
    [product_id |-> info.product_id,
     internal_price |-> info.price,
     cost_price |-> info.cost,
     competitors |-> competitors]

-----------------------------------------------------------------------------
(* agents/analysis_agent.py *)

\* market_position as the schema describes it
PositionNames == {"Leading", "Competitive", "Following"}

\* prices the analyst may answer for a product priced current_price
AnswerPrices(current_price) ==
    IF current_price = 174 THEN {157, 174}
    ELSE IF current_price = 200 THEN {200, 478, 524}
    ELSE SuggestedPrices

\* The PricingDecision JSON the analyst task may write for a product.  The
\* schema fixes the field types and nothing else; the prices, the strategy,
\* the risk, the position and the margin are whatever the LLM answers.  The
\* margin is either the value of the final price or a value carried from
\* elsewhere.
PricingDecisions(current_price, cost_price) ==
    UNION {
        {[product_id |-> "p1",
          current_price |-> current_price,
          cost_price |-> cost_price,
          suggested_price |-> s,
          profit_margin_percentage |-> m,
          strategy_used |-> st,
          risk_level |-> r,
          market_position |-> mp] :
            st \in StrategyNames, r \in RiskNames, mp \in PositionNames,
            m \in {0} \cup (IF cost_price > 0 THEN {MarginBp(s, cost_price)}
                            ELSE {})} :
        s \in AnswerPrices(current_price)}

\* raw answers that are JSON but not a full PricingDecision
PartialDecisions(current_price) ==
    {[product_id |-> "p1", current_price |-> current_price],
     [product_id |-> "p1", current_price |-> current_price, suggested_price |-> 88]}

-----------------------------------------------------------------------------
(* optimizer/multi_tenant_optimizer.py *)

\* _load_json: the parsed file, {} when it is missing or unreadable
LoadJson(file) == IF file = <<>> THEN <<>> ELSE file

\* d.get(key, default) on a dict that may be {}
DictGet(d, key, default) == IF d = <<>> THEN default ELSE Get(d[1], key, default)

\* the Product row written for one entry of market_data["products"]
ProductRow(existing, product_data) ==
    IF existing # <<>>
    THEN [product_id |-> existing[1].product_id,
          current_price |-> Get(product_data, "price", existing[1].current_price),
          cost_price |-> Get(product_data, "cost_price", existing[1].cost_price),
          category |-> Get(product_data, "category", existing[1].category)]
    ELSE [product_id |-> product_data.product_id,
          current_price |-> Get(product_data, "price", 0),
          cost_price |-> Get(product_data, "cost_price", 0),
          category |-> Get(product_data, "category", "Fashion")]

\* the Competitor row written for one entry of product_data["competitors"];
\* confidence_score in tenths
CompetitorRow(product_id, comp_data) ==
    [product_id |-> product_id,
     competitor_price |-> Get(comp_data, "price", 0),
     confidence_score |-> Get(comp_data, "confidence_score", 8),
     is_valid |-> Get(comp_data, "is_valid", TRUE)]

\* the PricingDecision row written when pricing_data is not {}
DecisionRow(pricing_data, execution_data) ==
    [product_id |-> Get(pricing_data, "product_id", ""),
     old_price |-> Get(pricing_data, "current_price", 0),
     suggested_price |-> Get(pricing_data, "suggested_price", 0),
     final_price |-> Get(pricing_data, "suggested_price", 0),
     strategy_used |-> Get(pricing_data, "strategy_used", "hold"),
     risk_level |-> Get(pricing_data, "risk_level", "high"),
     profit_margin_percentage |-> Get(pricing_data, "profit_margin_percentage", 0),
     action_taken |-> DictGet(execution_data, "action_taken", "skipped"),
     executed |-> FALSE]

\* entries of market_data["products"] that carry a product_id
SavedProducts(market_data) ==
    SelectSeq(DictGet(market_data, "products", <<>>),
              LAMBDA pd : Get(pd, "product_id", "") # "")

RECURSIVE UpsertProducts(_, _)
UpsertProducts(rows, pds) ==
    IF pds = <<>> THEN rows
    ELSE LET pd == Head(pds)
             hit == SelectSeq(rows, LAMBDA r : r.product_id = pd.product_id)
             new == ProductRow(IF hit = <<>> THEN <<>> ELSE <<hit[1]>>, pd)
             out == IF hit = <<>> THEN Append(rows, new)
                    ELSE [i \in 1..Len(rows) |->
                            IF rows[i].product_id = pd.product_id THEN new
                            ELSE rows[i]]
         IN  UpsertProducts(out, Tail(pds))

RECURSIVE CompetitorRows(_)
CompetitorRows(pds) ==
    IF pds = <<>> THEN <<>>
    ELSE LET pd == Head(pds)
             cs == Get(pd, "competitors", <<>>)
         IN  [i \in 1..Len(cs) |-> CompetitorRow(pd.product_id, cs[i])]
             \o CompetitorRows(Tail(pds))

RECURSIVE CountCompetitors(_)
CountCompetitors(pds) ==
    IF pds = <<>> THEN 0
    ELSE Len(Get(Head(pds), "competitors", <<>>)) + CountCompetitors(Tail(pds))

\* _calculate_statistics
Statistics(market_data, execution_data) ==
    LET action_taken == DictGet(execution_data, "action_taken", "skipped")
    IN  [success |-> TRUE,
         error_message |-> "",
         products_analyzed |-> Len(DictGet(market_data, "products", <<>>)),
         products_updated |-> IF action_taken = "updated" THEN 1 ELSE 0,
         products_skipped |-> IF action_taken = "skipped" THEN 1 ELSE 0,
         competitors_found |-> CountCompetitors(DictGet(market_data, "products", <<>>))]

\* the except branch of optimize_single_store
FailureResult ==
    [success |-> FALSE,
     error_message |-> "exception",
     products_analyzed |-> 0,
     products_updated |-> 0,
     products_skipped |-> 0,
     competitors_found |-> 0]

-----------------------------------------------------------------------------
(* Initial states *)

Catalog ==
    [price : ApiPriceAmounts, cost_price : ApiCostPrices, category : ApiCategories]

Blank ==
    /\ products = <<>>
    /\ shared_dir = NoFiles
    /\ put_log = <<>>
    /\ decisions = <<>>
    /\ db_products = <<>>
    /\ db_competitors = <<>>
    /\ activity = <<>>
    /\ result = <<>>
    /\ notice = ""
    /\ tavily = <<>>
    /\ found = <<>>
    /\ answers = <<>>

\* no store is installed, nothing is scheduled and no dashboard is open
Unscheduled ==
    /\ stores = <<>>
    /\ runs = <<>>
    /\ invocations = <<>>
    /\ clock = 0
    /\ fired = {}
    /\ refreshes = <<>>
    /\ build = <<>>
    /\ environ = <<>>
    /\ files = <<>>
    /\ opt_pc = <<>>
    /\ saved = <<>>
    /\ shown = <<>>

\* before optimize_single_store is called for the store
Init ==
    /\ pc = "idle"
    /\ catalog \in Catalog
    /\ salla_price = catalog.price
    /\ store_dir = NoFiles
    /\ Blank
    /\ u_in = <<>>
    /\ u_out = <<>>
    /\ Unscheduled

-----------------------------------------------------------------------------
(* The crew run of optimize_single_store *)

\* lines 77-104: the store is found and active; its environment is set and
\* the JSON files of its own output directory are removed
StartRun ==
    /\ pc = "idle"
    /\ store_dir' = NoFiles
    /\ pc' = "discover"
    /\ UNCHANGED <<catalog, products, shared_dir, salla_price, put_log,
                   dbVars, result, notice, utilVars, searchVars, answers, platformVars>>

\* the scout's tool call
salla_inventory_discovery ==
    /\ pc = "discover"
    /\ products' = DiscoveredProducts(catalog)
    /\ pc' = "scout"
    /\ UNCHANGED <<catalog, shared_dir, store_dir, salla_price, put_log,
                   dbVars, result, notice, utilVars, searchVars, answers, platformVars>>

\* the scout task writes step_1_fashion_market_intelligence.json under
\* ./ai-agent-output; with no discovered product it has nothing to report
ScoutTask ==
    /\ pc = "scout"
    /\ \E competitors \in CompetitorLists :
         shared_dir' =
            [shared_dir EXCEPT !.market =
                IF products = <<>> THEN <<>>
                ELSE <<MarketReport(products[1], competitors)>>]
    /\ pc' = "analyst"
    /\ UNCHANGED <<catalog, products, store_dir, salla_price, put_log,
                   dbVars, result, notice, utilVars, searchVars, answers, platformVars>>

\* the analyst task writes step_2_pricing_decision.json under
\* ./ai-agent-output: a PricingDecision, or a raw answer that is not one
AnalystTask ==
    /\ pc = "analyst"
    /\ \E out \in (IF shared_dir.market = <<>> THEN {<<>>}
                   ELSE {<<>>} \cup
                        {<<d>> : d \in
                            PricingDecisions(shared_dir.market[1].internal_price,
                                             shared_dir.market[1].cost_price)
                            \cup PartialDecisions(shared_dir.market[1].internal_price)}) :
         /\ shared_dir' = [shared_dir EXCEPT !.pricing = out]
         /\ answers' = Append(answers, out)
    /\ pc' = "executor"
    /\ UNCHANGED <<catalog, products, store_dir, salla_price, put_log,
                   dbVars, result, notice, utilVars, searchVars, platformVars>>

\* update_salla_product_price(product_id, new_price): one PUT; the price
\* changes in the store when Salla answers 200
UpdateSallaProductPrice(product_id, new_price, status) ==
    /\ put_log' = Append(put_log, [product_id |-> product_id, price |-> new_price,
                                   status |-> status])
    /\ salla_price' = IF status = 200 THEN new_price ELSE salla_price

\* the executor task: it holds the tool and may call it with the decision's
\* price; it writes step_3_execution_report.json under ./ai-agent-output
ExecutorTask ==
    /\ pc = "executor"
    /\ \/ UNCHANGED <<put_log, salla_price>>
       \/ /\ shared_dir.pricing # <<>>
          /\ "suggested_price" \in DOMAIN shared_dir.pricing[1]
          /\ \E status \in HttpStatuses :
                UpdateSallaProductPrice(shared_dir.pricing[1].product_id,
                                        shared_dir.pricing[1].suggested_price,
                                        status)
    /\ \E report \in {<<>>} \cup {<<[action_taken |-> a]>> : a \in ActionNames} :
         shared_dir' = [shared_dir EXCEPT !.execution = report]
    /\ pc' = "load"
    /\ UNCHANGED <<catalog, products, store_dir, dbVars, result, notice,
                   utilVars, searchVars, answers, platformVars>>

\* lines 155-165: crew.kickoff() raised
CrewError ==
    /\ pc \in {"discover", "scout", "analyst", "executor"}
    /\ result' = <<FailureResult>>
    /\ pc' = "done"
    /\ UNCHANGED <<catalog, products, shared_dir, store_dir, salla_price,
                   put_log, dbVars, notice, utilVars, searchVars, answers, platformVars>>

\* lines 125-153: the three reports are read from ./store-data/<store_id>,
\* saved by _save_to_database, and counted
LoadAndSave ==
    /\ pc = "load"
    /\ LET market_data == LoadJson(store_dir.market)
           pricing_data == LoadJson(store_dir.pricing)
           execution_data == LoadJson(store_dir.execution)
           pds == SavedProducts(market_data)
       IN  /\ db_products' = UpsertProducts(db_products, pds)
           /\ db_competitors' = db_competitors \o CompetitorRows(pds)
           /\ decisions' =
                IF pricing_data # <<>>
                THEN Append(decisions, DecisionRow(pricing_data[1], execution_data))
                ELSE decisions
           /\ result' = <<Statistics(market_data, execution_data)>>
    /\ pc' = "done"
    /\ UNCHANGED <<catalog, products, shared_dir, store_dir, salla_price,
                   put_log, activity, notice, utilVars, searchVars, answers, platformVars>>

-----------------------------------------------------------------------------
(* scripts/dashboard.py: the Execute Decision buttons over ./ai-agent-output *)

LegacyApprove ==
    /\ shared_dir.pricing # <<>>
    /\ Get(shared_dir.pricing[1], "risk_level", "High") # "High"
    /\ notice # "approved"
    /\ notice' = "approved"
    /\ UNCHANGED <<pc, catalog, products, shared_dir, store_dir, salla_price,
                   put_log, dbVars, result, utilVars, searchVars, answers, platformVars>>

LegacyReject ==
    /\ shared_dir.pricing # <<>>
    /\ notice # "rejected"
    /\ notice' = "rejected"
    /\ UNCHANGED <<pc, catalog, products, shared_dir, store_dir, salla_price,
                   put_log, dbVars, result, utilVars, searchVars, answers, platformVars>>

Next ==
    \/ StartRun
    \/ salla_inventory_discovery
    \/ ScoutTask
    \/ AnalystTask
    \/ ExecutorTask
    \/ CrewError
    \/ LoadAndSave
    \/ LegacyApprove
    \/ LegacyReject

Spec == Init /\ [][Next]_vars

-----------------------------------------------------------------------------
(* dashboard_saas.py *)

\* index of the newest decision of the product (order_by decided_at desc,
\* first), 0 when there is none
LatestDecision(product_id) ==
    LET hits == {i \in 1..Len(decisions) : decisions[i].product_id = product_id}
    IN  IF hits = {} THEN 0 ELSE CHOOSE i \in hits : \A j \in hits : j <= i

approve_price_update(product_id, new_price) ==
    LET i == LatestDecision(product_id)
    IN  /\ decisions' =
             IF i = 0 THEN decisions
             ELSE [decisions EXCEPT ![i].action_taken = "approved",
                                    ![i].final_price = new_price,
                                    ![i].executed = TRUE]
        /\ activity' = Append(activity, [activity_type |-> "manual_price_approval",
                                         product_id |-> product_id])

reject_price_update(product_id) ==
    LET i == LatestDecision(product_id)
    IN  /\ decisions' =
             IF i = 0 THEN decisions
             ELSE [decisions EXCEPT ![i].action_taken = "rejected",
                                    ![i].executed = TRUE]
        /\ activity' = Append(activity, [activity_type |-> "manual_price_rejection",
                                         product_id |-> product_id])

\* lines 836-852: the buttons of the product drawer, shown for the selected
\* product while its newest decision is pending or skipped
ApproveButton ==
    /\ \E k \in 1..Len(db_products) :
         LET i == LatestDecision(db_products[k].product_id)
         IN  /\ i # 0
             /\ decisions[i].action_taken \in {"pending", "skipped"}
             /\ approve_price_update(db_products[k].product_id,
                                     decisions[i].suggested_price)
    /\ UNCHANGED <<pc, catalog, products, shared_dir, store_dir, salla_price,
                   put_log, db_products, db_competitors, result, notice,
                   utilVars, searchVars, answers, platformVars>>

RejectButton ==
    /\ \E k \in 1..Len(db_products) :
         LET i == LatestDecision(db_products[k].product_id)
         IN  /\ i # 0
             /\ decisions[i].action_taken \in {"pending", "skipped"}
             /\ reject_price_update(db_products[k].product_id)
    /\ UNCHANGED <<pc, catalog, products, shared_dir, store_dir, salla_price,
                   put_log, db_products, db_competitors, result, notice,
                   utilVars, searchVars, answers, platformVars>>

\* Reports as _save_to_database may be handed them: any JSON object.  The
\* market report either follows ExtractedProductPrices or carries the
\* "products" list that _save_to_database reads.
SavedCompetitorLists ==
    {<<>>,
     <<[store_name |-> "Namshi", price |-> 90]>>,
     <<[store_name |-> "Styli", price |-> 90, confidence_score |-> 2,
        is_valid |-> FALSE]>>}

MarketFiles ==
    {<<>>, <<MarketReport([product_id |-> "p1", price |-> 100, cost |-> 80], <<>>)>>}
    \cup UNION {
        {<<[products |-> <<[product_id |-> "p1", price |-> 100, cost_price |-> 80,
                            competitors |-> cs]>>]>>,
         <<[products |-> <<[product_id |-> "p1", price |-> 100,
                            competitors |-> cs]>>]>>,
         <<[products |-> <<[product_id |-> "", price |-> 100,
                            competitors |-> cs]>>]>>} :
        cs \in SavedCompetitorLists}

PricingFiles ==
    {<<>>} \cup {<<d>> : d \in PricingDecisions(100, 80) \cup PartialDecisions(100)}

ExecutionFiles == {<<>>} \cup {<<[action_taken |-> a]>> : a \in ActionNames}

\* _save_to_database about to run on the reports of a store's directory
InitSave ==
    /\ pc = "load"
    /\ catalog = [price |-> 100, cost_price |-> <<80>>, category |-> <<>>]
    /\ salla_price = catalog.price
    /\ store_dir \in [market : MarketFiles, pricing : PricingFiles,
                      execution : ExecutionFiles]
    /\ Blank
    /\ u_in = <<>>
    /\ u_out = <<>>
    /\ Unscheduled

NextSave ==
    \/ LoadAndSave
    \/ ApproveButton
    \/ RejectButton

SpecSave == InitSave /\ [][NextSave]_vars

-----------------------------------------------------------------------------
(* The analyst task on given market reports *)

MaxRuns == 2

Observation(price) == [store_name |-> "Namshi", price |-> price, is_valid |-> TRUE]

\* products of the store with the competitors the scout reports for them
AnalystContexts ==
    {[product |-> [price |-> 174, cost_price |-> <<120>>, category |-> <<"dresses">>],
      competitors |-> <<Observation(165), Observation(180), Observation(159)>>],
     [product |-> [price |-> 200, cost_price |-> <<100>>, category |-> <<>>],
      competitors |-> <<Observation(500), Observation(480)>>],
     [product |-> [price |-> 100, cost_price |-> <<95>>, category |-> <<>>],
      competitors |-> <<Observation(90)>>]}
    \cup {[product |-> [price |-> 100, cost_price |-> <<80>>, category |-> <<>>],
           competitors |-> cs] : cs \in CompetitorLists}

\* the scout task has written its report under ./ai-agent-output
InitAnalyst ==
    /\ pc = "analyst"
    /\ \E c \in AnalystContexts :
         /\ catalog = c.product
         /\ products = DiscoveredProducts(c.product)
         /\ shared_dir =
              [NoFiles EXCEPT !.market =
                  <<MarketReport(ProductInfo(c.product), c.competitors)>>]
    /\ salla_price = catalog.price
    /\ store_dir = NoFiles
    /\ put_log = <<>>
    /\ decisions = <<>>
    /\ db_products = <<>>
    /\ db_competitors = <<>>
    /\ activity = <<>>
    /\ result = <<>>
    /\ notice = ""
    /\ u_in = <<>>
    /\ u_out = <<>>
    /\ tavily = <<>>
    /\ found = <<>>
    /\ answers = <<>>
    /\ Unscheduled

\* optimize_single_store is called again for the store and the scout task
\* reports the same product and competitors: the analyst task runs again
RepeatRun ==
    /\ pc = "executor"
    /\ Len(answers) < MaxRuns
    /\ pc' = "analyst"
    /\ UNCHANGED <<catalog, products, shared_dir, store_dir, salla_price, put_log,
                   dbVars, result, notice, utilVars, searchVars, answers, platformVars>>

NextAnalyst ==
    \/ AnalystTask
    \/ RepeatRun

SpecAnalyst == InitAnalyst /\ [][NextAnalyst]_vars

-----------------------------------------------------------------------------
(* utils.py applied to bounded arguments *)

MarginPercents == {-5, 0, 4, 5, 7, 9, 10, 15, 16, 20, 21, 25}
ChangePercents == {-25, -21, -20, -10, -5, 0, 5, 9, 10, 20, 21, 25}
SellingPrices == {0, 88, 100, 157}
CostPrices == {-5, 0, 80, 95, 120}

InitUtils ==
    /\ pc = "utils"
    /\ catalog = [price |-> 100, cost_price |-> <<80>>, category |-> <<>>]
    /\ salla_price = catalog.price
    /\ store_dir = NoFiles
    /\ Blank
    /\ u_in \in [fn : {"get_risk_level"}, margin_percentage : MarginPercents,
                 price_change_percentage : ChangePercents]
            \cup [fn : {"calculate_profit_margin"}, selling_price : SellingPrices,
                  cost_price : CostPrices]
    /\ u_out = <<>>
    /\ Unscheduled

CallGetRiskLevel ==
    /\ pc = "utils"
    /\ u_in.fn = "get_risk_level"
    /\ u_out = <<>>
    /\ u_out' = <<get_risk_level(u_in.margin_percentage,
                                 u_in.price_change_percentage)>>
    /\ UNCHANGED <<pc, catalog, products, shared_dir, store_dir, salla_price,
                   put_log, dbVars, result, notice, u_in, searchVars, answers, platformVars>>

CallCalculateProfitMargin ==
    /\ pc = "utils"
    /\ u_in.fn = "calculate_profit_margin"
    /\ u_out = <<>>
    /\ u_out' = <<calculate_profit_margin(u_in.selling_price, u_in.cost_price)>>
    /\ UNCHANGED <<pc, catalog, products, shared_dir, store_dir, salla_price,
                   put_log, dbVars, result, notice, u_in, searchVars, answers, platformVars>>

NextUtils ==
    \/ CallGetRiskLevel
    \/ CallCalculateProfitMargin

SpecUtils == InitUtils /\ [][NextUtils]_vars

-----------------------------------------------------------------------------
(* tools/market_search.py *)

MaxResults == 2

\* self.target_domains, and the fashion_domains that replace them
target_domains ==
    {"noon.com", "souq.com", "amazon.sa", "jarir.com", "extra.com", "lulu.com",
     "carrefour.com", "danube.com.sa"}

fashion_domains ==
    {"namshi.com", "styli.com", "hm.com", "zara.com", "centrepointstore.com",
     "maxfashion.com", "splash.com", "redtag.com.sa", "nisnass.com", "ounass.com",
     "shein.com", "modanisa.com"}

domain_mapping ==
    [d \in target_domains |->
        CASE d = "noon.com" -> "Noon"
          [] d = "souq.com" -> "Souq"
          [] d = "amazon.sa" -> "Amazon KSA"
          [] d = "jarir.com" -> "Jarir"
          [] d = "extra.com" -> "eXtra"
          [] d = "lulu.com" -> "Lulu"
          [] d = "carrefour.com" -> "Carrefour"
          [] d = "danube.com.sa" -> "Danube"]

trusted_domains == {"noon.com", "jarir.com", "extra.com", "amazon.sa"}

\* A url is modelled by the one domain it names.  None is <<>>.
_extract_store_name(url) ==
    IF url \in DOMAIN domain_mapping THEN <<domain_mapping[url]>> ELSE <<>>

\* A text is the sequence of the numbers written in it with a currency mark,
\* in reading order: the number as the regex captures it, in halalas
\* (hundredths of a riyal), and the one entry of sar_patterns that matches
\* the way it is written (1: "n SAR", 2: "SAR n", 3: "n" + Arabic riyal,
\* 4: "n SR").
RECURSIVE ExtractFrom(_, _)
ExtractFrom(text, k) ==
    IF k > 4 THEN <<>>
    ELSE LET matches == SelectSeq(text, LAMBDA m : m.pattern = k)
         IN  IF /\ matches # <<>>
                /\ 100 <= matches[1].amount
                /\ matches[1].amount <= 5000000
             THEN <<matches[1].amount>>
             ELSE ExtractFrom(text, k + 1)

\* _extract_price without the range validation of line 173
RECURSIVE FirstMatch(_, _)
FirstMatch(text, k) ==
    IF k > 4 THEN <<>>
    ELSE LET matches == SelectSeq(text, LAMBDA m : m.pattern = k)
         IN  IF matches # <<>> THEN <<matches[1].amount>>
             ELSE FirstMatch(text, k + 1)

_extract_price_unvalidated(text) == FirstMatch(text, 1)

_extract_price(text) == ExtractFrom(text, 1)

\* Confidence scores are binary64 numbers, written here in thousandths; a
\* sum that binary64 rounds away from the decimal sum is kept one unit away
\* from it (0.2 + 0.1 = 0.30000000000000004 is 301, 0.4 + 0.2 =
\* 0.6000000000000001 is 601, 0.7 + 0.2 = 0.8999999999999999 is 899).
FloatAdd(score, step) ==
    CASE score = 200 /\ step = 100 -> 301
      [] score = 400 /\ step = 200 -> 601
      [] score = 601 /\ step = 100 -> 701
      [] score = 700 /\ step = 200 -> 899
      [] score = 700 /\ step = 100 -> 799
      [] score = 899 /\ step = 100 -> 999
      [] OTHER -> score + step

\* the indicator lists are searched in lower-cased text, so "SAR" never
\* matches; of the ways a price is written only the Arabic mark does
PriceIndicator(hit) == \E i \in 1..Len(hit.text) : hit.text[i].pattern = 3

_calculate_confidence(hit) ==
    LET s1 == IF hit.title_has_name THEN FloatAdd(0, 400) ELSE 0
        s2 == IF hit.url \in trusted_domains THEN FloatAdd(s1, 300) ELSE s1
        s3 == IF PriceIndicator(hit) THEN FloatAdd(s2, 200) ELSE s2
        s4 == IF hit.product_page THEN FloatAdd(s3, 100) ELSE s3
    IN  IF s4 < 1000 THEN s4 ELSE 1000

\* the CompetitorResult of a search result, <<>> for None
_parse_search_result(hit) ==
    IF _extract_store_name(hit.url) = <<>> THEN <<>>
    ELSE IF _extract_price(hit.text) = <<>> THEN <<>>
    ELSE <<[store_name |-> _extract_store_name(hit.url)[1],
            price |-> _extract_price(hit.text)[1],
            confidence_score |-> _calculate_confidence(hit),
            is_valid |-> _calculate_confidence(hit) > 300]>>

\* the results appended over all queries, in the order Tavily returned them
RECURSIVE ValidResults(_)
ValidResults(results) ==
    IF results = <<>> THEN <<>>
    ELSE LET competitor_result == _parse_search_result(Head(results))
         IN  (IF competitor_result # <<>> /\ competitor_result[1].is_valid
              THEN competitor_result ELSE <<>>)
             \o ValidResults(Tail(results))

\* list.sort(key=confidence_score, reverse=True): stable, highest first
RECURSIVE SortByConfidence(_)
SortByConfidence(results) ==
    IF results = <<>> THEN <<>>
    ELSE LET sorted == SortByConfidence(SubSeq(results, 1, Len(results) - 1))
             last == results[Len(results)]
             ahead == SelectSeq(sorted, LAMBDA r :
                                   r.confidence_score >= last.confidence_score)
             behind == SelectSeq(sorted, LAMBDA r :
                                    r.confidence_score < last.confidence_score)
         IN  ahead \o <<last>> \o behind

Top(results, n) == SubSeq(results, 1, IF Len(results) < n THEN Len(results) ELSE n)

search_competitors(results, max_results) ==
    Top(SortByConfidence(ValidResults(results)), max_results)

Mention(amount, pattern) == [amount |-> amount, pattern |-> pattern]

\* 0.50, 1, 10, 90, 50000, 50000.01 and 1,000,000 riyals
PriceTexts ==
    {<<>>,
     <<Mention(50, 1)>>,
     <<Mention(100, 4)>>,
     <<Mention(1000, 1)>>,
     <<Mention(9000, 3)>>,
     <<Mention(5000000, 2)>>,
     <<Mention(5000001, 1)>>,
     <<Mention(100000000, 1), Mention(9000, 1)>>,
     <<Mention(100000000, 1), Mention(9000, 2)>>}

\* what Tavily returns under include_domains=self.target_domains
TargetResults ==
    [url : {"noon.com", "lulu.com"}, title_has_name : BOOLEAN,
     product_page : BOOLEAN, text : PriceTexts]

\* what Tavily returns under include_domains=fashion_domains
FashionResults ==
    [url : {"namshi.com"}, title_has_name : {TRUE}, product_page : BOOLEAN,
     text : {<<Mention(9000, 1)>>, <<Mention(9000, 3)>>}]

\* a search tool is about to be called for the product of the store
InitSearch ==
    /\ pc = "search"
    /\ catalog = [price |-> 100, cost_price |-> <<80>>, category |-> <<>>]
    /\ salla_price = catalog.price
    /\ store_dir = NoFiles
    /\ products = <<>>
    /\ shared_dir = NoFiles
    /\ put_log = <<>>
    /\ decisions = <<>>
    /\ db_products = <<>>
    /\ db_competitors = <<>>
    /\ activity = <<>>
    /\ result = <<>>
    /\ notice = ""
    /\ u_in = <<>>
    /\ u_out = <<>>
    /\ tavily \in SeqsUpTo(TargetResults, MaxResults)
                  \cup SeqsUpTo(FashionResults, MaxResults)
    /\ found = <<>>
    /\ answers = <<>>
    /\ Unscheduled

\* the tool wrapper of search_competitors, max_results = 10
advanced_market_search ==
    /\ pc = "search"
    /\ \A i \in 1..Len(tavily) : tavily[i].url \in target_domains
    /\ found' = search_competitors(tavily, 10)
    /\ pc' = "searched"
    /\ UNCHANGED <<catalog, products, shared_dir, store_dir, salla_price, put_log,
                   dbVars, result, notice, utilVars, tavily, answers, platformVars>>

\* the scout's tool: its own loop over the results, the same parsing and
\* sort, dicts without the is_valid key
fashion_market_search ==
    /\ pc = "search"
    /\ \A i \in 1..Len(tavily) : tavily[i].url \in fashion_domains
    /\ LET all_results == SortByConfidence(ValidResults(tavily))
       IN  found' = [i \in 1..Len(Top(all_results, 10)) |->
                        [store_name |-> all_results[i].store_name,
                         price |-> all_results[i].price,
                         confidence_score |-> all_results[i].confidence_score,
                         is_fashion_retailer |-> TRUE]]
    /\ pc' = "searched"
    /\ UNCHANGED <<catalog, products, shared_dir, store_dir, salla_price, put_log,
                   dbVars, result, notice, utilVars, tavily, answers, platformVars>>

NextSearch ==
    \/ advanced_market_search
    \/ fashion_market_search

SpecSearch == InitSearch /\ [][NextSearch]_vars

-----------------------------------------------------------------------------
(* scheduler/tasks.py, scheduler/celery_app.py, optimizer/token_manager.py *)

MaxInvocations == 2
MaxHours == 2

StoreIds == {"s1"}
TokenResponses == {"200", "400", "401", "500", "timeout"}
ExpiresInHours == 336
RefreshWindowHours == 24
AllStoresEveryHours == 6
RefreshTokensAtHour == 2
HoursPerDay == 24

\* a row of table stores; tokens are numbered, a refreshed token is the next
\* number; the token is valid for ExpiresInHours or ran out at midnight;
\* credentials tells whether the store's or the system's client id and
\* secret are set
StoreRow(is_active, automation_mode, token_expires_at, last_optimization_run, credentials) ==
    [is_active |-> is_active,
     automation_mode |-> automation_mode,
     access_token |-> 1,
     refresh_token |-> 1,
     token_expires_at |-> token_expires_at,
     last_optimization_run |-> last_optimization_run,
     update_frequency_hours |-> 2,
     credentials |-> credentials]

\* table stores as the scheduler may find it: empty, or one store
StoreTables ==
    {<<>>}
    \cup {[s \in StoreIds |-> row] :
            row \in {StoreRow(TRUE, "full-auto", ExpiresInHours, <<0>>, TRUE),
                     StoreRow(TRUE, "full-auto", 0, <<>>, TRUE),
                     StoreRow(TRUE, "full-auto", 0, <<>>, FALSE),
                     StoreRow(TRUE, "manual", ExpiresInHours, <<>>, TRUE),
                     StoreRow(FALSE, "full-auto", ExpiresInHours, <<>>, TRUE)}}

\* models.py declares ActivityLog.metadata while half of the callers pass
\* activity_metadata=: which keyword the mapped class takes is fixed by the
\* deployment, and the constructor raises TypeError on the other one
Builds == [log_keyword : {"metadata", "activity_metadata"}]

ActivityLogAccepts(keyword) == keyword = build.log_keyword

\* Store.is_token_expired, with > for >=
is_token_expired_late(store, now) == now > store.token_expires_at

\* Store.is_token_expired
is_token_expired(store, now) == now >= store.token_expires_at

\* Store.needs_optimization, without the mode test
needs_optimization_any_mode(store, now) ==
    IF ~store.is_active THEN FALSE
    ELSE IF store.last_optimization_run = <<>> THEN TRUE
    ELSE now - store.last_optimization_run[1] >= store.update_frequency_hours

\* Store.needs_optimization
needs_optimization(store, now) ==
    IF ~store.is_active \/ store.automation_mode = "manual" THEN FALSE
    ELSE IF store.last_optimization_run = <<>> THEN TRUE
    ELSE now - store.last_optimization_run[1] >= store.update_frequency_hours

\* TokenManager._deactivate_store: the flag and the log row are committed
\* together; when ActivityLog raises, get_db rolls the flag back and line 186
\* only logs the error
_deactivate_store(rows, log, store_id) ==
    IF ActivityLogAccepts("activity_metadata")
    THEN [stores |-> [rows EXCEPT ![store_id].is_active = FALSE],
          activity |-> Append(log, [activity_type |-> "system_store_deactivated",
                                    store_id |-> store_id])]
    ELSE [stores |-> rows, activity |-> log]

\* TokenManager.refresh_store_token under the answer of the token endpoint
\* (a 200 answer carries both new tokens).  requested tells whether the POST
\* was sent at all.
refresh_store_token(rows, log, store_id, response, now) ==
    IF store_id \notin DOMAIN rows \/ ~rows[store_id].credentials
    THEN [returned |-> FALSE, requested |-> FALSE, stores |-> rows, activity |-> log]
    ELSE IF response = "200"
    THEN LET updated == [rows EXCEPT ![store_id].access_token = @ + 1,
                                     ![store_id].refresh_token = @ + 1,
                                     ![store_id].token_expires_at = now + ExpiresInHours]
         IN  IF ActivityLogAccepts("activity_metadata")
             THEN [returned |-> TRUE, requested |-> TRUE, stores |-> updated,
                   activity |-> Append(log, [activity_type |-> "system_token_refresh",
                                             store_id |-> store_id])]
             ELSE \* line 109 has committed the tokens; line 150 returns False
                  [returned |-> FALSE, requested |-> TRUE, stores |-> updated,
                   activity |-> log]
    ELSE IF response \in {"400", "401"}
    THEN LET d == _deactivate_store(rows, log, store_id)
         IN  [returned |-> FALSE, requested |-> TRUE, stores |-> d.stores,
              activity |-> d.activity]
    ELSE [returned |-> FALSE, requested |-> TRUE, stores |-> rows, activity |-> log]

\* the store row as a call found it and left it, <<>> for a missing store
RowOf(rows, store_id) == IF store_id \in DOMAIN rows THEN <<rows[store_id]>> ELSE <<>>

RefreshRecord(rows, store_id, response, r, caller) ==
    [store_id |-> store_id,
     response |-> IF r.requested THEN response ELSE "none",
     returned |-> r.returned,
     before |-> RowOf(rows, store_id),
     after |-> RowOf(r.stores, store_id),
     caller |-> caller]

\* optimize_store.delay(store_id, run_type): the message on the queue
Message(store_id, run_type) ==
    [store_id |-> store_id, run_type |-> run_type,
     pc |-> "queued", run_id |-> 0, retval |-> <<>>]

RECURSIVE Messages(_)
Messages(ids) ==
    IF ids = {} THEN <<>>
    ELSE LET s == CHOOSE x \in ids : TRUE
         IN  <<Message(s, "scheduled")>> \o Messages(ids \ {s})

\* lines 132-146: the newest run of the store that is 'running' is marked
\* failed; when the database cannot be reached the bare except passes
MarkLatestRunningFailed(rs, store_id, db_ok) ==
    LET hits == {i \in 1..Len(rs) : rs[i].store_id = store_id /\ rs[i].status = "running"}
    IN  IF ~db_ok \/ hits = {} THEN rs
        ELSE LET i == CHOOSE x \in hits : \A y \in hits : y <= x
             IN  [rs EXCEPT ![i].status = "failed"]

Returned(k, status, by_exception) ==
    [invocations EXCEPT ![k].pc = "returned",
                        ![k].retval = <<[status |-> status, raised |-> by_exception]>>]

schedulerIdle ==
    /\ pc = "scheduler"
    /\ catalog = [price |-> 100, cost_price |-> <<80>>, category |-> <<>>]
    /\ salla_price = catalog.price
    /\ store_dir = NoFiles
    /\ Blank
    /\ u_in = <<>>
    /\ u_out = <<>>

\* stores are installed, the beat clock starts at midnight, the queue is empty
InitSched ==
    /\ schedulerIdle
    /\ stores \in StoreTables
    /\ runs = <<>>
    /\ invocations = <<>>
    /\ clock = 0
    /\ fired = {}
    /\ refreshes = <<>>
    /\ build \in Builds
    /\ environ = <<>>
    /\ files = <<>>
    /\ opt_pc = <<>>
    /\ saved = <<>>
    /\ shown = <<>>

crewVars == <<pc, catalog, products, shared_dir, store_dir, salla_price, put_log,
              decisions, db_products, db_competitors, result, notice, utilVars,
              searchVars, answers>>

\* beat entry optimize-all-stores-6h: every active store that is not in manual
\* mode gets a message; reading a store after its session was closed may
\* raise, and then nothing is queued
optimize_all_stores ==
    /\ clock % AllStoresEveryHours = 0
    /\ "optimize_all_stores" \notin fired
    /\ fired' = fired \cup {"optimize_all_stores"}
    /\ \/ LET active == {s \in DOMAIN stores : stores[s].is_active}
              targets == {s \in active : stores[s].automation_mode # "manual"}
          IN  /\ Len(invocations) + Cardinality(targets) <= MaxInvocations
              /\ invocations' = invocations \o Messages(targets)
       \/ UNCHANGED invocations
    /\ UNCHANGED <<crewVars, activity, stores, runs, clock, refreshes, build,
                   tenantVars, shown>>

\* beat entry check-stores-hourly
check_and_optimize_stores ==
    /\ "check_and_optimize_stores" \notin fired
    /\ fired' = fired \cup {"check_and_optimize_stores"}
    /\ \/ LET active == {s \in DOMAIN stores : stores[s].is_active}
              targets == {s \in active : needs_optimization(stores[s], clock)}
          IN  /\ Len(invocations) + Cardinality(targets) <= MaxInvocations
              /\ invocations' = invocations \o Messages(targets)
       \/ UNCHANGED invocations
    /\ UNCHANGED <<crewVars, activity, stores, runs, clock, refreshes, build,
                   tenantVars, shown>>

\* manual_optimize, sent by the dashboard's trigger_manual_optimization or
\* the API for a store id, installed or not; it runs optimize_store with
\* run_type 'manual'
manual_optimize ==
    /\ Len(invocations) < MaxInvocations
    /\ \E store_id \in StoreIds :
         invocations' = Append(invocations, Message(store_id, "manual"))
    /\ UNCHANGED <<crewVars, activity, stores, runs, clock, fired, refreshes, build,
                   tenantVars, shown>>

\* optimize_store lines 46-80, and lines 128-152 when they raise
StartOptimizeStore ==
    \E k \in 1..Len(invocations) :
        /\ invocations[k].pc = "queued"
        /\ LET store_id == invocations[k].store_id
           IN  \/ \* the query of line 49 raises
                  /\ \E db_ok \in BOOLEAN :
                         runs' = MarkLatestRunningFailed(runs, store_id, db_ok)
                  /\ invocations' = Returned(k, "error", TRUE)
                  /\ UNCHANGED <<stores, activity, refreshes>>
               \/ /\ store_id \notin DOMAIN stores
                  /\ invocations' = Returned(k, "error", FALSE)
                  /\ UNCHANGED <<stores, runs, activity, refreshes>>
               \/ /\ store_id \in DOMAIN stores
                  /\ ~stores[store_id].is_active
                  /\ invocations' = Returned(k, "skipped", FALSE)
                  /\ UNCHANGED <<stores, runs, activity, refreshes>>
               \/ /\ store_id \in DOMAIN stores
                  /\ stores[store_id].is_active
                  /\ is_token_expired(stores[store_id], clock)
                  /\ \E response \in TokenResponses :
                       LET r == refresh_store_token(stores, activity, store_id,
                                                    response, clock)
                       IN  /\ stores' = r.stores
                           /\ activity' = r.activity
                           /\ refreshes' =
                                  <<RefreshRecord(stores, store_id, response, r,
                                                  "optimize_store")>>
                           /\ IF r.returned
                              THEN /\ runs' = Append(runs,
                                          [store_id |-> store_id,
                                           run_type |-> invocations[k].run_type,
                                           status |-> "running"])
                                   /\ invocations' =
                                        [invocations EXCEPT ![k].pc = "optimizer",
                                                            ![k].run_id = Len(runs) + 1]
                              ELSE /\ invocations' = Returned(k, "error", FALSE)
                                   /\ UNCHANGED runs
               \/ /\ store_id \in DOMAIN stores
                  /\ stores[store_id].is_active
                  /\ ~is_token_expired(stores[store_id], clock)
                  /\ runs' = Append(runs, [store_id |-> store_id,
                                           run_type |-> invocations[k].run_type,
                                           status |-> "running"])
                  /\ invocations' = [invocations EXCEPT ![k].pc = "optimizer",
                                                        ![k].run_id = Len(runs) + 1]
                  /\ UNCHANGED <<stores, activity, refreshes>>
        /\ UNCHANGED <<crewVars, clock, fired, build, tenantVars, shown>>

\* optimize_store lines 83-126, and lines 128-152 when they raise: the
\* optimizer returns its result (it catches every exception itself and fails
\* for an inactive store) and the run is closed.  committed counts the commits
\* of lines 101, 107 and 117 that went through before an exception (a
\* database error, the soft time limit, or ActivityLog's TypeError at line
\* 110).
FinishOptimizeStore ==
    \E k \in 1..Len(invocations) :
        /\ invocations[k].pc = "optimizer"
        /\ LET store_id == invocations[k].store_id
               run_id == invocations[k].run_id
               closed(success) ==
                   [runs EXCEPT ![run_id].status =
                       IF success THEN "completed" ELSE "failed"]
               optimized == [stores EXCEPT ![store_id].last_optimization_run = <<clock>>]
           IN  \/ \* nothing was committed
                  /\ \E db_ok \in BOOLEAN :
                         runs' = MarkLatestRunningFailed(runs, store_id, db_ok)
                  /\ invocations' = Returned(k, "error", TRUE)
                  /\ UNCHANGED <<stores, activity>>
               \/ \E success \in BOOLEAN, committed \in 1..3 :
                  /\ success => stores[store_id].is_active
                  /\ committed = 3 => ActivityLogAccepts("metadata")
                  /\ stores' = IF committed >= 2 THEN optimized ELSE stores
                  /\ IF committed = 3
                     THEN /\ runs' = closed(success)
                          /\ activity' = Append(activity,
                                 [activity_type |-> "optimization_completed",
                                  store_id |-> store_id])
                          /\ invocations' = Returned(k, "success", FALSE)
                     ELSE \* the run is closed, so the except branch finds
                          \* the newest other run of the store, if any
                          /\ \E db_ok \in BOOLEAN :
                                 runs' = MarkLatestRunningFailed(closed(success),
                                                                 store_id, db_ok)
                          /\ activity' = activity
                          /\ invocations' = Returned(k, "error", TRUE)
        /\ UNCHANGED <<crewVars, clock, fired, refreshes, build, tenantVars, shown>>

RECURSIVE RefreshEach(_, _, _)
\* lines 266-273: refresh_store_token for each store found, in turn
RefreshEach(ids, state, responses) ==
    IF ids = {} THEN state
    ELSE LET s == CHOOSE x \in ids : TRUE
             r == refresh_store_token(state.stores, state.activity, s,
                                      responses[s], clock)
         IN  RefreshEach(ids \ {s},
                 [stores |-> r.stores,
                  activity |-> r.activity,
                  refreshes |-> <<RefreshRecord(state.stores, s, responses[s], r,
                                                "refresh_expired_tokens")>>],
                 responses)

\* beat entry refresh-tokens-daily
refresh_expired_tokens ==
    /\ clock % HoursPerDay = RefreshTokensAtHour
    /\ "refresh_expired_tokens" \notin fired
    /\ fired' = fired \cup {"refresh_expired_tokens"}
    /\ LET expiring == {s \in DOMAIN stores :
                            /\ stores[s].is_active
                            /\ stores[s].token_expires_at < clock + RefreshWindowHours}
       IN  \E responses \in [expiring -> TokenResponses] :
             LET end == RefreshEach(expiring,
                            [stores |-> stores, activity |-> activity,
                             refreshes |-> refreshes], responses)
             IN  /\ stores' = end.stores
                 /\ activity' = end.activity
                 /\ refreshes' = end.refreshes
    /\ UNCHANGED <<crewVars, runs, invocations, clock, build, tenantVars, shown>>

\* the next full hour: beat sends its entries again
Tick ==
    /\ clock < MaxHours
    /\ clock' = clock + 1
    /\ fired' = {}
    /\ UNCHANGED <<crewVars, activity, stores, runs, invocations, refreshes, build,
                   tenantVars, shown>>

NextSched ==
    \/ optimize_all_stores
    \/ check_and_optimize_stores
    \/ manual_optimize
    \/ StartOptimizeStore
    \/ FinishOptimizeStore
    \/ refresh_expired_tokens
    \/ Tick

SpecSched == InitSched /\ [][NextSched]_vars

-----------------------------------------------------------------------------
(* optimize_single_store running for two stores at once *)

TenantIds == {"s1", "s2"}

\* directories are paths, as the list of their parts
SharedOutputDir == <<"ai-agent-output">>

\* MultiTenantOptimizer.get_store_output_dir
get_store_output_dir(store_id) == <<"store-data", store_id>>

OutputDirs == {SharedOutputDir} \cup {get_store_output_dir(s) : s \in TenantIds}

\* the report a task of the crew writes, by the position of the crew
ReportAt(position) ==
    CASE position = "scout" -> "market"
      [] position = "analyst" -> "pricing"
      [] position = "executor" -> "execution"

AfterTask(position) ==
    CASE position = "scout" -> "analyst"
      [] position = "analyst" -> "executor"
      [] position = "executor" -> "load"

\* two installed stores with tokens of their own; each optimize_single_store
\* runs in a worker process of its own
InitTenants ==
    /\ schedulerIdle
    /\ stores = [s \in TenantIds |->
                   [StoreRow(TRUE, "full-auto", ExpiresInHours, <<>>, TRUE)
                      EXCEPT !.access_token = IF s = "s1" THEN 1 ELSE 2]]
    /\ runs = <<>>
    /\ invocations = <<>>
    /\ clock = 0
    /\ fired = {}
    /\ refreshes = <<>>
    /\ build = [log_keyword |-> "metadata"]
    /\ environ = [s \in TenantIds |-> <<>>]
    /\ files = [d \in OutputDirs |-> NoFiles]
    /\ opt_pc = [s \in TenantIds |-> "idle"]
    /\ saved = [s \in TenantIds |-> <<>>]
    /\ shown = <<>>

\* lines 77-104: set_store_environment and cleanup_store_output
set_store_environment ==
    \E s \in TenantIds :
        /\ opt_pc[s] \in {"idle", "done"}
        /\ stores[s].is_active
        /\ environ' = [environ EXCEPT ![s] =
               <<[SALLA_ACCESS_TOKEN |-> stores[s].access_token,
                  SALLA_STORE_ID |-> s,
                  AI_AGENT_OUTPUT_DIR |-> get_store_output_dir(s)]>>]
        /\ files' = [files EXCEPT ![get_store_output_dir(s)] = NoFiles]
        /\ opt_pc' = [opt_pc EXCEPT ![s] = "scout"]
        /\ UNCHANGED <<crewVars, activity, schedVars, saved, shown>>

\* crew.kickoff, one task at a time: the tools read SALLA_ACCESS_TOKEN from
\* the environment and the task writes its output_file under
\* ./ai-agent-output; the report is tagged with the run and the token behind it
CrewTask ==
    \E s \in TenantIds :
        /\ opt_pc[s] \in {"scout", "analyst", "executor"}
        /\ files' = [files EXCEPT ![SharedOutputDir][ReportAt(opt_pc[s])] =
               <<[store_id |-> environ[s][1].SALLA_STORE_ID,
                  token |-> environ[s][1].SALLA_ACCESS_TOKEN]>>]
        /\ opt_pc' = [opt_pc EXCEPT ![s] = AfterTask(opt_pc[s])]
        /\ UNCHANGED <<crewVars, activity, schedVars, environ, saved, shown>>

\* lines 125-138: the reports are loaded from the store's directory and
\* handed to _save_to_database
LoadStoreResults ==
    \E s \in TenantIds :
        /\ opt_pc[s] = "load"
        /\ saved' = [saved EXCEPT ![s] =
               <<[market_data |-> LoadJson(files[get_store_output_dir(s)].market),
                  pricing_data |-> LoadJson(files[get_store_output_dir(s)].pricing),
                  execution_data |-> LoadJson(files[get_store_output_dir(s)].execution)]>>]
        /\ opt_pc' = [opt_pc EXCEPT ![s] = "done"]
        /\ UNCHANGED <<crewVars, activity, schedVars, environ, files, shown>>

NextTenants ==
    \/ set_store_environment
    \/ CrewTask
    \/ LoadStoreResults

SpecTenants == InitTenants /\ [][NextTenants]_vars

-----------------------------------------------------------------------------
(* dashboard_saas.py open in two sessions while optimization runs save *)

MaxDecisions == 2

Sessions == {"a", "b"}

\* pricing reports of later runs for the tracked product
SavedPricingData ==
    {[product_id |-> "p1", current_price |-> 100, suggested_price |-> s] :
        s \in {88, 126}}

\* the product is tracked; nothing has been decided yet
InitDashboard ==
    /\ pc = "dashboard"
    /\ catalog = [price |-> 100, cost_price |-> <<80>>, category |-> <<>>]
    /\ salla_price = catalog.price
    /\ store_dir = NoFiles
    /\ products = <<>>
    /\ shared_dir = NoFiles
    /\ put_log = <<>>
    /\ decisions = <<>>
    /\ db_products = <<ProductRow(<<>>, [product_id |-> "p1", price |-> 100,
                                         cost_price |-> 80])>>
    /\ db_competitors = <<>>
    /\ activity = <<>>
    /\ result = <<>>
    /\ notice = ""
    /\ tavily = <<>>
    /\ found = <<>>
    /\ answers = <<>>
    /\ u_in = <<>>
    /\ u_out = <<>>
    /\ stores = <<>>
    /\ runs = <<>>
    /\ invocations = <<>>
    /\ clock = 0
    /\ fired = {}
    /\ refreshes = <<>>
    /\ build \in Builds
    /\ environ = <<>>
    /\ files = <<>>
    /\ opt_pc = <<>>
    /\ saved = <<>>
    /\ shown = [s \in Sessions |-> <<>>]

\* _save_to_database lines 230-245, handed the pricing and execution reports
\* of a run (and no market report)
SaveDecision ==
    /\ pc = "dashboard"
    /\ Len(decisions) < MaxDecisions
    /\ \E pricing_data \in SavedPricingData, execution_data \in ExecutionFiles :
         decisions' = Append(decisions, DecisionRow(pricing_data, execution_data))
    /\ UNCHANGED <<pc, catalog, products, shared_dir, store_dir, salla_price,
                   put_log, db_products, db_competitors, activity, result, notice,
                   utilVars, searchVars, answers, schedVars, tenantVars, shown>>

\* lines 591-600 of a script run: product_decisions keeps the newest decision
\* of each product as it is in the database at that moment
RenderPage ==
    /\ pc = "dashboard"
    /\ \E s \in Sessions, k \in 1..Len(db_products) :
         LET i == LatestDecision(db_products[k].product_id)
         IN  /\ shown[s] = <<>>
             /\ i # 0
             /\ shown' = [shown EXCEPT ![s] = <<decisions[i]>>]
    /\ UNCHANGED <<pc, catalog, products, shared_dir, store_dir, salla_price,
                   put_log, dbVars, result, notice, utilVars, searchVars, answers,
                   schedVars, tenantVars>>

\* lines 836-845 of the same script run: APPROVE was pressed and the decision
\* fetched above is pending or skipped.  When ActivityLog raises, get_db rolls
\* the approval back.
ClickApprove ==
    /\ pc = "dashboard"
    /\ \E s \in Sessions :
         /\ shown[s] # <<>>
         /\ shown[s][1].action_taken \in {"pending", "skipped"}
         /\ IF ActivityLogAccepts("activity_metadata")
            THEN approve_price_update(shown[s][1].product_id,
                                      shown[s][1].suggested_price)
            ELSE UNCHANGED <<decisions, activity>>
         /\ shown' = [shown EXCEPT ![s] = <<>>]
    /\ UNCHANGED <<pc, catalog, products, shared_dir, store_dir, salla_price,
                   put_log, db_products, db_competitors, result, notice,
                   utilVars, searchVars, answers, schedVars, tenantVars>>

\* lines 847-852 of the same script run: REJECT was pressed
ClickReject ==
    /\ pc = "dashboard"
    /\ \E s \in Sessions :
         /\ shown[s] # <<>>
         /\ shown[s][1].action_taken \in {"pending", "skipped"}
         /\ IF ActivityLogAccepts("activity_metadata")
            THEN reject_price_update(shown[s][1].product_id)
            ELSE UNCHANGED <<decisions, activity>>
         /\ shown' = [shown EXCEPT ![s] = <<>>]
    /\ UNCHANGED <<pc, catalog, products, shared_dir, store_dir, salla_price,
                   put_log, db_products, db_competitors, result, notice,
                   utilVars, searchVars, answers, schedVars, tenantVars>>

\* the script run ends without a button pressed
LeavePage ==
    /\ pc = "dashboard"
    /\ \E s \in Sessions :
         /\ shown[s] # <<>>
         /\ shown' = [shown EXCEPT ![s] = <<>>]
    /\ UNCHANGED <<pc, catalog, products, shared_dir, store_dir, salla_price,
                   put_log, dbVars, result, notice, utilVars, searchVars, answers,
                   schedVars, tenantVars>>

NextDashboard ==
    \/ SaveDecision
    \/ RenderPage
    \/ ClickApprove
    \/ ClickReject
    \/ LeavePage

SpecDashboard == InitDashboard /\ [][NextDashboard]_vars

-----------------------------------------------------------------------------
(* Claims *)

\* the decision the analyst task emitted, when it is a JSON object
Emitted == shared_dir.pricing

\* a full PricingDecision, as opposed to a raw answer missing fields
IsDecision(d) ==
    {"suggested_price", "cost_price", "current_price", "strategy_used",
     "risk_level", "profit_margin_percentage"} \subseteq DOMAIN d

\* the minimum margin of a category, in percent, as the claims state it
MinMarginPercent(category) ==
    IF category = "dresses" THEN 15
    ELSE IF category = "accessories" THEN 20
    ELSE 10

\* (price - cost) / cost >= floor, for cost > 0
MeetsFloor(price, cost, category) ==
    (price - cost) * 100 >= MinMarginPercent(category) * cost

\* C1: every decision the analyst emits for a product with a known cost has
\* a margin (suggested_price - cost_price) / cost_price of at least the
\* minimum margin of the product's category, whatever its strategy.
C1_EmittedMeetsFloor ==
    \A i \in 1..Len(Emitted) :
        (IsDecision(Emitted[i]) /\ Emitted[i].cost_price > 0 /\ products # <<>>)
        => MeetsFloor(Emitted[i].suggested_price, Emitted[i].cost_price,
                      products[1].category)

\* C2: a decision whose strategy is Undercut, Match or Premium never carries
\* a price below the margin floor: a price that fails the floor appears only
\* in a Hold decision at the current price.
C2_FloorFailureIsHold ==
    \A i \in 1..Len(Emitted) :
        (/\ IsDecision(Emitted[i])
         /\ Emitted[i].cost_price > 0
         /\ products # <<>>
         /\ ~MeetsFloor(Emitted[i].suggested_price, Emitted[i].cost_price,
                        products[1].category))
        => /\ Emitted[i].strategy_used = "Hold"
           /\ Emitted[i].suggested_price = Emitted[i].current_price

C4_NoCompetitorsIsHoldHigh ==
    \A i \in 1..Len(Emitted) :
        (/\ IsDecision(Emitted[i])
         /\ Emitted[i].cost_price > 0
         /\ shared_dir.market # <<>>
         /\ shared_dir.market[1].competitors = <<>>)
        => /\ Emitted[i].strategy_used = "Hold"
           /\ Emitted[i].suggested_price = Emitted[i].current_price
           /\ Emitted[i].risk_level = "High"

\* the product of the store has no usable price or cost
InvalidContext ==
    \/ catalog.price <= 0
    \/ catalog.cost_price = <<>>
    \/ FloatOrZero(catalog.cost_price) <= 0

\* C5: for a product whose price is <= 0 or whose cost is missing or <= 0 no
\* decision is emitted, and a run that went through the crew ends in failure.
C5_InvalidContextFails ==
    InvalidContext
    => /\ Emitted = <<>>
       /\ (pc = "done" => ~result[1].success)

\* C6: for a product with price > 0 and cost > 0, once the analyst task has
\* run without the crew raising, there is exactly one emitted decision, its
\* strategy is Undercut, Match, Premium or Hold and its risk is Low, Medium
\* or High.
C6_ValidContextDecides ==
    (/\ ~InvalidContext
     /\ pc \in {"executor", "load", "done"}
     /\ (result # <<>> => result[1].success))
    => /\ Len(Emitted) = 1
       /\ IsDecision(Emitted[1])
       /\ Emitted[1].strategy_used \in {"Undercut", "Match", "Premium", "Hold"}
       /\ Emitted[1].risk_level \in {"Low", "Medium", "High"}

\* the risk level as the claim defines it, arguments in whole percents
ClaimedRisk(margin, change, competitors) ==
    IF margin < 10 \/ Abs(change) > 20 \/ competitors = 0 THEN "High"
    ELSE IF margin > 20 /\ Abs(change) <= 10 /\ competitors >= 2 THEN "Low"
    ELSE "Medium"

\* validated-competitor counts a decision may rest on
CompetitorCounts == {0, 1, 2, 3}

\* C7: the risk level is High if margin < 10% or |price change| > 20% or
\* there is no validated competitor, else Low if margin > 20% and
\* |price change| <= 10% and there are at least 2 competitors, else Medium;
\* get_risk_level returns that level whatever the competitor count is.
C7_RiskLevels ==
    (u_in # <<>> /\ u_in.fn = "get_risk_level" /\ u_out # <<>>)
    => \A n \in CompetitorCounts :
          u_out[1] = ClaimedRisk(u_in.margin_percentage,
                                 u_in.price_change_percentage, n)

C11_SameContextSameDecision ==
    \A i \in 1..Len(answers) : \A j \in 1..Len(answers) :
        (/\ answers[i] # <<>> /\ IsDecision(answers[i][1])
         /\ answers[j] # <<>> /\ IsDecision(answers[j][1]))
        => answers[i] = answers[j]

\* the price of our product in halalas, as the validator would be given it
OurPriceHalalas == catalog.price * 100

\* C12: no competitor price below 20% or above 500% of our current price
\* is among the results the search returns.
C12_OutlierBand ==
    \A i \in 1..Len(found) :
        /\ found[i].price * 100 >= 20 * OurPriceHalalas
        /\ found[i].price * 100 <= 500 * OurPriceHalalas

\* C13: every result the search returns has a price strictly greater than 0
\* and strictly less than 50000 riyals.
C13_PriceBelowCeiling ==
    \A i \in 1..Len(found) : found[i].price > 0 /\ found[i].price < 5000000

\* C13, with the range as coded: every result the search returns has a price
\* of at least 1 riyal and at most 50000 riyals, 50000 included.
C13_PriceInCodedRange ==
    \A i \in 1..Len(found) : found[i].price >= 100 /\ found[i].price <= 5000000

\* a result priced exactly 50000 riyals was returned
C13_Witness ==
    /\ pc = "searched"
    /\ \E i \in 1..Len(found) : found[i].price = 5000000
    /\ \E i \in 1..Len(tavily) : _extract_price(tavily[i].text) = <<>>

\* the result was returned by the search
Kept(competitor_result) ==
    \E j \in 1..Len(found) :
        /\ found[j].store_name = competitor_result.store_name
        /\ found[j].price = competitor_result.price
        /\ found[j].confidence_score = competitor_result.confidence_score

\* C14: a search result with a store and a price is returned if its
\* confidence is 0.3 or more, 0.3 itself included, and is left out without
\* an error if it is less.
C14_ThresholdInclusive ==
    pc = "searched"
    => \A i \in 1..Len(tavily) :
          LET parsed == _parse_search_result(tavily[i])
          IN  parsed # <<>>
              => (parsed[1].confidence_score >= 300 <=> Kept(parsed[1]))

Listing(results) ==
    [i \in 1..Len(results) |-> <<results[i].price, results[i].confidence_score>>]

\* C16: the search returns the surviving results in the order in which
\* they came in.
C16_OrderPreserved ==
    pc = "searched" => Listing(found) = Listing(ValidResults(tavily))

\* prices of the valid observations of the market report, <<>> without one
ValidPrices ==
    IF shared_dir.market = <<>> THEN <<>>
    ELSE LET cs == SelectSeq(shared_dir.market[1].competitors,
                             LAMBDA c : c.is_valid)
         IN  [i \in 1..Len(cs) |-> cs[i].price]

RECURSIVE SumOf(_)
SumOf(prices) == IF prices = <<>> THEN 0 ELSE Head(prices) + SumOf(Tail(prices))

MinOf(prices) ==
    CHOOSE p \in {prices[i] : i \in 1..Len(prices)} :
        \A i \in 1..Len(prices) : p <= prices[i]

\* the position as the claims define it: Leading at or below the minimum,
\* Following at or above mean x 1.05, Competitive between
ClaimedPosition(price, prices) ==
    IF prices = <<>> THEN "Unknown"
    ELSE IF price <= MinOf(prices) THEN "Leading"
    ELSE IF price * 100 * Len(prices) >= 105 * SumOf(prices) THEN "Following"
    ELSE "Competitive"

\* a full decision was emitted for the market report
Decided ==
    /\ shared_dir.market # <<>>
    /\ Emitted # <<>>
    /\ IsDecision(Emitted[1])

\* C17: the market position of an emitted decision is Leading iff our price
\* <= competitor minimum, else Following iff our price >= mean x 1.05, else
\* Competitive; it is Unknown only with no valid observation.
C17_MarketPosition ==
    (Decided /\ ValidPrices # <<>>)
    => Emitted[1].market_position =
          ClaimedPosition(Emitted[1].current_price, ValidPrices)

\* offsets 2..5 that leave competitor_min - offset above the cost
UndercutOffsets(cost) ==
    {o \in 2..5 : ValidPrices # <<>> /\ MinOf(ValidPrices) - o > cost}

UndercutViable(price, cost) ==
    /\ ClaimedPosition(price, ValidPrices) \in {"Leading", "Competitive"}
    /\ UndercutOffsets(cost) # {}

UndercutPrice(cost) ==
    MinOf(ValidPrices) - (CHOOSE o \in UndercutOffsets(cost) :
                             \A q \in UndercutOffsets(cost) : o <= q)

\* C18: when the position is Leading or Competitive and competitor_min -
\* offset > cost for some offset in 2..5, the emitted decision is Undercut at
\* competitor_min minus the smallest such offset.
C18_UndercutBelowMinimum ==
    (Decided /\ UndercutViable(Emitted[1].current_price, Emitted[1].cost_price))
    => /\ Emitted[1].strategy_used = "Undercut"
       /\ Emitted[1].suggested_price = UndercutPrice(Emitted[1].cost_price)

\* the category of the product, as salla_inventory_discovery reports it
Category == IF products = <<>> THEN "Fashion" ELSE products[1].category

\* matching the competitor minimum clears the cost
MatchViable(cost) == ValidPrices # <<>> /\ MinOf(ValidPrices) > cost

\* C19: a decision is not Undercut only if Undercut is not viable or its
\* price fails the margin floor, and it is Premium or Hold only if, besides,
\* Match is not viable or the competitor minimum fails the floor.
C19_StrategyPreference ==
    Decided
    => LET d == Emitted[1]
           undercut == /\ UndercutViable(d.current_price, d.cost_price)
                       /\ MeetsFloor(UndercutPrice(d.cost_price), d.cost_price,
                                     Category)
           match == /\ MatchViable(d.cost_price)
                    /\ MeetsFloor(MinOf(ValidPrices), d.cost_price, Category)
       IN  /\ d.strategy_used # "Undercut" => ~undercut
           /\ d.strategy_used \in {"Premium", "Hold"} => ~match

\* C20: for the product priced 200 with cost 100 and competitors at 500 and
\* 480 the emitted decision is Premium at about mean x 1.07 (524) with risk
\* Low or Medium.
C20_PremiumWhenFarCheaper ==
    (/\ Decided
     /\ Emitted[1].current_price = 200
     /\ Emitted[1].cost_price = 100
     /\ ValidPrices = <<500, 480>>)
    => /\ Emitted[1].strategy_used = "Premium"
       /\ Abs(Emitted[1].suggested_price * 200 - 107 * SumOf(ValidPrices)) <= 200
       /\ Emitted[1].risk_level \in {"Low", "Medium"}

\* C21: an emitted decision that changes the price and clears the 10% default
\* also clears the floor of the product's own category: 15% for dresses,
\* 20% for accessories, 10% for basics and for unknown or missing categories.
C21_CategorySelectsFloor ==
    \A i \in 1..Len(Emitted) :
        (/\ IsDecision(Emitted[i])
         /\ Emitted[i].cost_price > 0
         /\ products # <<>>
         /\ Emitted[i].strategy_used # "Hold"
         /\ (Emitted[i].suggested_price - Emitted[i].cost_price) * 100
               >= 10 * Emitted[i].cost_price)
        => (Emitted[i].suggested_price - Emitted[i].cost_price) * 100
              >= MinMarginPercent(products[1].category) * Emitted[i].cost_price

\* C23: get_risk_level returns Low when margin > 15 and |change| < 10,
\* Medium for every other input with margin >= 5 and |change| <= 20, High
\* for the rest, and always one of the three.
C23_CodedRiskLevels ==
    (u_in # <<>> /\ u_in.fn = "get_risk_level" /\ u_out # <<>>)
    => LET m == u_in.margin_percentage
           c == Abs(u_in.price_change_percentage)
           low == m > 15 /\ c < 10
           medium == ~low /\ m >= 5 /\ c <= 20
       IN  /\ u_out[1] \in {"Low", "Medium", "High"}
           /\ low => u_out[1] = "Low"
           /\ medium => u_out[1] = "Medium"
           /\ (~low /\ ~medium) => u_out[1] = "High"

\* get_risk_level(20, 5) has returned Low
C23_Witness ==
    /\ u_in # <<>>
    /\ u_in.fn = "get_risk_level"
    /\ u_in.margin_percentage = 20
    /\ u_in.price_change_percentage = 5
    /\ u_out = <<"Low">>

\* C24: every run an optimize_store invocation created is 'completed' or
\* 'failed' once that invocation has returned, whichever way it returned.
C24_NoRunLeftRunning ==
    \A k \in 1..Len(invocations) :
        (invocations[k].pc = "returned" /\ invocations[k].run_id # 0)
            => runs[invocations[k].run_id].status \in {"completed", "failed"}

\* C25: at any time at most one run per store is 'running'.
C25_OneRunningRunPerStore ==
    \A s \in StoreIds :
        Cardinality({i \in 1..Len(runs) :
                        runs[i].store_id = s /\ runs[i].status = "running"}) <= 1

\* C26: a step in which an invocation returns because of an exception changes
\* the status of no run but the one this invocation created.
C26_FailsOnlyOwnRun ==
    [][\A k \in 1..Len(invocations) :
          (/\ invocations[k].pc # "returned"
           /\ invocations'[k].pc = "returned"
           /\ invocations'[k].retval[1].raised)
          => \A i \in 1..Len(runs) :
                runs'[i].status # runs[i].status => i = invocations[k].run_id]_vars

\* C27: a message sent by optimize_all_stores or check_and_optimize_stores is
\* for a store that is active and not in manual mode at that moment, and one
\* sent by check_and_optimize_stores is for a store never optimized or last
\* optimized at least update_frequency_hours ago.
C27_OnlyDueAutomaticStoresQueued ==
    [][\A k \in 1..Len(invocations') :
          (k > Len(invocations) /\ fired' # fired)
          => LET s == invocations'[k].store_id
             IN  /\ s \in DOMAIN stores
                 /\ stores[s].is_active
                 /\ stores[s].automation_mode # "manual"
                 /\ "check_and_optimize_stores" \in fired' \ fired
                      => \/ stores[s].last_optimization_run = <<>>
                         \/ clock - stores[s].last_optimization_run[1]
                               >= stores[s].update_frequency_hours]_vars

\* the hourly check, and no other task of this hour, has queued a store that
\* was optimized before and is due again
C27_Witness ==
    /\ fired = {"check_and_optimize_stores"}
    /\ \E k \in 1..Len(invocations) :
        /\ invocations[k].pc = "queued"
        /\ invocations[k].run_type = "scheduled"
        /\ \A j \in 1..Len(invocations) : j # k => invocations[j].pc = "returned"
        /\ LET s == invocations[k].store_id
           IN  /\ stores[s].last_optimization_run # <<>>
               /\ clock - stores[s].last_optimization_run[1]
                     >= stores[s].update_frequency_hours

\* C28: optimize_store creates a run and goes on to the optimizer only for a
\* store that exists, is active and, if its token has expired, has just had
\* refresh_store_token return True; otherwise it returns without a new run.
C28_NoRunWithoutStoreAndToken ==
    [][\A k \in 1..Len(invocations) :
          (invocations[k].pc = "queued" /\ invocations'[k].pc # "queued")
          => LET s == invocations[k].store_id
                 usable ==
                    /\ s \in DOMAIN stores
                    /\ stores[s].is_active
                    /\ clock >= stores[s].token_expires_at
                         => /\ refreshes' # <<>>
                            /\ refreshes'[1].store_id = s
                            /\ refreshes'[1].before = <<stores[s]>>
                            /\ refreshes'[1].returned
             IN  /\ invocations'[k].pc = "optimizer"
                      => usable /\ Len(runs') = Len(runs) + 1
                 /\ ~usable
                      => invocations'[k].pc = "returned" /\ Len(runs') = Len(runs)]_vars

\* the optimizer is about to run for a store whose expired token was
\* refreshed by this optimize_store
C28_Witness ==
    \E k \in 1..Len(invocations), j \in 1..Len(refreshes) :
        /\ invocations[k].pc = "optimizer"
        /\ runs[invocations[k].run_id].status = "running"
        /\ refreshes[j].caller = "optimize_store"
        /\ refreshes[j].store_id = invocations[k].store_id
        /\ refreshes[j].returned
        /\ refreshes[j].before[1].token_expires_at <= clock

\* C29: a call of refresh_store_token that is not answered 200 returns False
\* and leaves the three token fields as they were; it leaves the store
\* inactive when the answer was 400 or 401 and leaves is_active alone
\* otherwise.
C29_FailedRefreshLeavesTokens ==
    \A j \in 1..Len(refreshes) :
        (refreshes[j].response # "200" /\ refreshes[j].before # <<>>)
        => LET b == refreshes[j].before[1]
               a == refreshes[j].after[1]
           IN  /\ ~refreshes[j].returned
               /\ a.access_token = b.access_token
               /\ a.refresh_token = b.refresh_token
               /\ a.token_expires_at = b.token_expires_at
               /\ refreshes[j].response \in {"400", "401"} => ~a.is_active
               /\ refreshes[j].response \notin {"400", "401"}
                    => a.is_active = b.is_active

\* C22: every report a crew has written lies in the output directory of the
\* store it was run for and was made with that store's token, and so does
\* every report handed to _save_to_database for a store.
C22_StoreIsolation ==
    LET own(report, s) ==
            report # <<>> => /\ report[1].store_id = s
                             /\ report[1].token = stores[s].access_token
    IN  /\ \A d \in DOMAIN files :
              \A kind \in {"market", "pricing", "execution"} :
                  files[d][kind] # <<>>
                      => /\ d = get_store_output_dir(files[d][kind][1].store_id)
                         /\ own(files[d][kind], files[d][kind][1].store_id)
        /\ \A s \in DOMAIN saved :
              saved[s] # <<>>
                  => /\ own(saved[s][1].market_data, s)
                     /\ own(saved[s][1].pricing_data, s)
                     /\ own(saved[s][1].execution_data, s)

====
